---- MODULE Spec2Model ----
(***************************************************************************)
(* Gift Dispatch Bridge of tiktok_gift_hardware_controller.                *)
(*                                                                         *)
(*   serial_handler/handler.py   SerialGiftProcessor (the Dispatch Worker) *)
(*   tiktok_detector/detector.py TikTokGiftDetector  (an event adapter)    *)
(*   main_controller.py          main loop, handlers, signal handler       *)
(***************************************************************************)
EXTENDS Integers, Sequences, FiniteSets, TLC

\* ------------------------------------------------------------------ bounds
MaxEvents == 3      \* gift events delivered in a run
MaxRx     == 1      \* lines waiting in the serial input buffer
MaxTicks  == 2      \* clock ticks in a run
MaxFails  == 2      \* consecutive failed opens that are counted
MaxSignals == 2     \* SIGINT/SIGTERM deliveries in a run
EpochStart == 10    \* time.time() when the run starts (far above the cooldown)

\* ------------------------------------------------------- configuration
Cooldown == 2                            \* process_cooldown, in clock ticks
Capacities == {0, 2}                     \* MAX_GIFT_QUEUE_SIZE values
ReadySignalCfg == <<"R", "E", "A", "D", "Y">>     \* READY_SIGNAL
GiftCommand == <<"G", "O">>                       \* GIFT_COMMAND
TargetName == "Rose"                              \* target_gift_name
TargetIds == {"", "1"}                            \* target_gift_id ("" = none)

\* ------------------------------------------------ text, as the code does it
Whitespace == {"SP", "TAB", "CR", "LF"}
InvalidByte == "xFF"

RECURSIVE LStrip(_)
LStrip(s) ==
    IF s # <<>> /\ Head(s) \in Whitespace THEN LStrip(Tail(s)) ELSE s

RECURSIVE RStrip(_)
RStrip(s) ==
    IF s # <<>> /\ s[Len(s)] \in Whitespace
    THEN RStrip(SubSeq(s, 1, Len(s) - 1))
    ELSE s

\* str.strip(): whitespace goes at both ends
Strip(s) == LStrip(RStrip(s))

\* bytes.decode("utf-8", errors="ignore"): undecodable bytes are left out
Decode(bytes) == SelectSeq(bytes, LAMBDA b : b # InvalidByte)

\* the line the worker compares: readline().decode(...).strip()
ReceivedLine(raw) == Strip(Decode(raw))

\* self.ready_signal = ready_signal.strip()
ready_signal == Strip(ReadySignalCfg)

\* (self.gift_command + "\n").encode("utf-8")
CommandToSend == GiftCommand \o <<"LF">>

\* str(event.gift.id) for the ids of the model
StrOfId(i) == IF i = 1 THEN "1" ELSE IF i = 2 THEN "2" ELSE "0"

\* raw lines the actuator may put on the wire
ReadyCRLF   == <<"R", "E", "A", "D", "Y", "CR", "LF">>
LowerLF     == <<"r", "e", "a", "d", "y", "LF">>
SpReadyLF   == <<"SP", "R", "E", "A", "D", "Y", "LF">>
Lines == {ReadyCRLF, LowerLF, SpReadyLF}

\* gift events of the stream: for either target_gift_id one that matches and
\* one that does not
GiftEvents == {[name |-> "Rose", id |-> 2], [name |-> "Heart", id |-> 1]}

\* every combination of name and id (used where only the detector runs)
StreamEvents ==
    {[name |-> nm, id |-> i] : nm \in {"Rose", "Heart"}, i \in {1, 2}}

VARIABLES
    maxsize,              \* asyncio.Queue(maxsize=max_queue_size)
    target_gift_id,       \* TikTokGiftDetector.target_gift_id
    gift_queue,           \* the shared asyncio.Queue, head first
    events,               \* history: events given to on_gift, in order
    results,              \* history: outcome of each on_gift, in order
    enq,                  \* history: items accepted by put_nowait, in order
    deq,                  \* history: items taken by get_nowait, in order
    tx,                   \* history: payloads written to the serial port
    serial_conn,          \* "None" | "open" | "closed"
    rx,                   \* serial input buffer: lines not yet read, each
                          \* with its arrival time and can_process_gift then
    clock,                \* time.time()
    last_processed_time,  \* SerialGiftProcessor._last_processed_time
    stop_event,           \* SerialGiftProcessor._stop_event
    wpc,                  \* position of the worker thread
    open_fails,           \* history: consecutive failed opens
    shutdown_event,       \* main_controller.shutdown_event
    connected_event,      \* main_controller._connected_event
    client_connected,     \* tiktok_client.connected
    connection_task,      \* main's connection_task: "None" | "running" | "done"
    serial_processor_ref, \* main_controller._serial_processor_ref is set
    apc,                  \* position of main() and its monitoring loop
    cancel_pending,       \* the main task has a CancelledError to receive
    nsig,                 \* history: signals delivered to signal_handler
    dpc,                  \* position of TikTokGiftDetector.run
    config                \* what main() found in settings.ini ("unread" before)

appVars == <<shutdown_event, connected_event, client_connected,
             connection_task, serial_processor_ref, apc, cancel_pending,
             nsig, dpc, config>>

vars == <<maxsize, target_gift_id, gift_queue, events, results, enq, deq, tx,
          serial_conn, rx, clock, last_processed_time, stop_event, wpc,
          open_fails, appVars>>

queueVars  == <<gift_queue, events, results, enq>>
workerVars == <<deq, tx, serial_conn, last_processed_time, wpc, open_fails>>
configVars == <<maxsize, target_gift_id>>

nevents == Len(results)
dropped == Cardinality({i \in 1..Len(results) : results[i] = "dropped"})
Last(s) == s[Len(s)]
IsPrefix(s, t) == Len(s) <= Len(t) /\ SubSeq(t, 1, Len(s)) = s

ThreadAlive == wpc \in {"init", "loop", "reconnect"}

Init ==
    /\ maxsize \in Capacities
    /\ target_gift_id \in TargetIds
    /\ gift_queue = <<>>
    /\ events = <<>>
    /\ results = <<>>
    /\ enq = <<>>
    /\ deq = <<>>
    /\ tx = <<>>
    /\ serial_conn = "None"
    /\ rx = <<>>
    /\ clock = EpochStart
    /\ last_processed_time = 0
    /\ stop_event = FALSE
    /\ wpc = "none"
    /\ open_fails = 0
    /\ shutdown_event = FALSE
    /\ connected_event = FALSE
    /\ client_connected = FALSE
    /\ connection_task = "None"
    /\ serial_processor_ref = FALSE
    /\ apc = "startup"
    /\ cancel_pending = FALSE
    /\ nsig = 0
    /\ dpc = "check"
    /\ config = "unread"

\* ------------------------------------------------------------ the queue
\* variant: the capacity test is off by one
QueueFullOffByOne(q) == maxsize > 0 /\ Len(q) > maxsize
\* asyncio.Queue.full(): a maxsize <= 0 queue is never full
QueueFull(q) == maxsize > 0 /\ Len(q) >= maxsize

\* put_nowait appends at the tail
PutItem(q, item) == Append(q, item)

\* variant: the newest item is taken
TakeNewest(q) == [item |-> q[Len(q)], rest |-> SubSeq(q, 1, Len(q) - 1)]
\* get_nowait takes the head
GetItem(q) == [item |-> Head(q), rest |-> Tail(q)]

\* ------------------------------------------- TikTokGiftDetector.on_gift
\* variant: an event matches by its id or by its name
MatchesIdOrName(ev) ==
    \/ target_gift_id # "" /\ StrOfId(ev.id) = target_gift_id
    \/ ev.name = TargetName
\* is_target_gift, lines 72-77
IsTargetGift(ev) ==
    IF target_gift_id # ""
    THEN StrOfId(ev.id) = target_gift_id
    ELSE ev.name = TargetName

\* variant: a full queue evicts its oldest item for the new one
DropOldestOnFull(ev) ==
    /\ nevents < MaxEvents
    /\ events' = Append(events, ev)
    /\ IF IsTargetGift(ev)
       THEN LET gift_info == [name |-> ev.name, id |-> ev.id, n |-> nevents + 1]
            IN IF QueueFull(gift_queue)
               THEN /\ gift_queue' = Append(Tail(gift_queue), gift_info)
                    /\ results' = Append(results, "dropped")
                    /\ enq' = enq
               ELSE /\ gift_queue' = PutItem(gift_queue, gift_info)
                    /\ results' = Append(results, "queued")
                    /\ enq' = Append(enq, gift_info)
       ELSE /\ results' = Append(results, "nomatch")
            /\ UNCHANGED <<gift_queue, enq>>
    /\ UNCHANGED appVars
    /\ UNCHANGED <<configVars, workerVars, rx, clock, stop_event>>

\* variant: the handler waits for room in a full queue (put, not put_nowait)
BlockingPut(ev) ==
    /\ nevents < MaxEvents
    /\ events' = Append(events, ev)
    /\ IF IsTargetGift(ev)
       THEN LET gift_info == [name |-> ev.name, id |-> ev.id, n |-> nevents + 1]
            IN /\ ~QueueFull(gift_queue)
               /\ gift_queue' = PutItem(gift_queue, gift_info)
               /\ results' = Append(results, "queued")
               /\ enq' = Append(enq, gift_info)
       ELSE /\ results' = Append(results, "nomatch")
            /\ UNCHANGED <<gift_queue, enq>>
    /\ UNCHANGED appVars
    /\ UNCHANGED <<configVars, workerVars, rx, clock, stop_event>>

\* on_gift, lines 69-92
DetectorOnGift(ev) ==
    /\ nevents < MaxEvents
    /\ events' = Append(events, ev)
    /\ IF IsTargetGift(ev)
       THEN LET gift_info == [name |-> ev.name, id |-> ev.id, n |-> nevents + 1]
            IN IF QueueFull(gift_queue)
               THEN \* asyncio.QueueFull: logged, the new item is discarded
                    /\ results' = Append(results, "dropped")
                    /\ UNCHANGED <<gift_queue, enq>>
               ELSE /\ gift_queue' = PutItem(gift_queue, gift_info)
                    /\ results' = Append(results, "queued")
                    /\ enq' = Append(enq, gift_info)
       ELSE /\ results' = Append(results, "nomatch")
            /\ UNCHANGED <<gift_queue, enq>>
    /\ UNCHANGED appVars
    /\ UNCHANGED <<configVars, workerVars, rx, clock, stop_event>>

\* variant: the cooldown is not looked at
CanProcessNoCooldown == gift_queue # <<>>
\* can_process_gift of one iteration
CanProcess ==
    /\ gift_queue # <<>>
    /\ clock - last_processed_time >= Cooldown

\* ------------------------------------------------ the serial line, the clock
\* the actuator sends a line; pyserial keeps it until readline() takes it
\* (each line carries when it came and what can_process_gift was then)
SerialArrive(raw) ==
    /\ serial_conn = "open"
    /\ Len(rx) < MaxRx
    /\ rx' = Append(rx, [line |-> raw, at |-> clock, can |-> CanProcess])
    /\ UNCHANGED appVars
    /\ UNCHANGED <<configVars, queueVars, workerVars, clock, stop_event>>

Tick ==
    /\ clock < EpochStart + MaxTicks
    /\ clock' = clock + 1
    /\ UNCHANGED appVars
    /\ UNCHANGED <<configVars, queueVars, workerVars, rx, stop_event>>

\* ------------------------------------ SerialGiftProcessor: start and stop
\* variant: a thread is started whether or not one is alive
StartAlways ==
    /\ stop_event' = FALSE
    /\ wpc' = "init"
    /\ UNCHANGED appVars
    /\ UNCHANGED <<configVars, queueVars, deq, tx, serial_conn, rx, clock,
                   last_processed_time, open_fails>>
\* start_processing, lines 184-195
StartProcessing ==
    /\ IF ThreadAlive
       THEN UNCHANGED <<stop_event, wpc>>
       ELSE /\ stop_event' = FALSE
            /\ wpc' = "init"
    /\ UNCHANGED appVars
    /\ UNCHANGED <<configVars, queueVars, deq, tx, serial_conn, rx, clock,
                   last_processed_time, open_fails>>

StopProcessing ==
    /\ stop_event' = TRUE
    /\ UNCHANGED appVars
    /\ UNCHANGED <<configVars, queueVars, workerVars, rx, clock>>

\* --------------------------------------------- _initialize_serial outcomes
\* serial.Serial(...) succeeds (the port's input buffer starts empty) or raises
OpenSucceeds ==
    /\ serial_conn' = "open"
    /\ rx' = <<>>
    /\ open_fails' = 0

OpenFails ==
    /\ open_fails < MaxFails
    /\ serial_conn' = "None"
    /\ rx' = <<>>
    /\ open_fails' = open_fails + 1

\* ----------------------------------------- _process_gifts_loop, first open
WorkerFirstOpen ==
    /\ wpc = "init"
    /\ \/ OpenSucceeds /\ wpc' = "loop"
       \/ OpenFails /\ wpc' = "done"       \* line 83: return
    /\ UNCHANGED appVars
    /\ UNCHANGED <<configVars, queueVars, deq, tx, clock, last_processed_time,
                   stop_event>>

\* ---------------------------------------------- _process_gifts_loop, exit
\* variant: the loop is left without closing the port
ExitWithoutClose ==
    /\ wpc = "loop"
    /\ stop_event
    /\ wpc' = "done"
    /\ UNCHANGED appVars
    /\ UNCHANGED <<configVars, queueVars, deq, tx, serial_conn, rx, clock,
                   last_processed_time, stop_event, open_fails>>
\* lines 85 and 162-166: the stop event is seen, the port closed if open
WorkerExit ==
    /\ wpc = "loop"
    /\ stop_event
    /\ serial_conn' = IF serial_conn = "open" THEN "closed" ELSE serial_conn
    /\ wpc' = "done"
    /\ UNCHANGED appVars
    /\ UNCHANGED <<configVars, queueVars, deq, tx, rx, clock,
                   last_processed_time, stop_event, open_fails>>

\* line == self.ready_signal
IsReady(line) == line = ready_signal

\* variant: one ready line empties the queue, a command for every item
DispatchDrainsQueue ==
    IF gift_queue = <<>>
    THEN UNCHANGED <<gift_queue, deq, tx, last_processed_time, wpc>>
    ELSE /\ gift_queue' = <<>>
         /\ deq' = deq \o gift_queue
         /\ tx' = tx \o [i \in 1..Len(gift_queue) |-> CommandToSend]
         /\ last_processed_time' = clock
         /\ wpc' = "loop"
\* lines 106-114: get_nowait, write, flush, _last_processed_time
Dispatch ==
    IF gift_queue = <<>>
    THEN \* asyncio.QueueEmpty: caught at line 153, nothing is written
         UNCHANGED <<gift_queue, deq, tx, last_processed_time, wpc>>
    ELSE LET got == GetItem(gift_queue)
         IN /\ gift_queue' = got.rest
            /\ deq' = Append(deq, got.item)
            /\ \/ \* write and flush succeed
                  /\ tx' = Append(tx, CommandToSend)
                  /\ last_processed_time' = clock
                  /\ wpc' = "loop"
               \/ \* write or flush raises SerialException
                  /\ wpc' = "reconnect"
                  /\ UNCHANGED <<tx, last_processed_time>>

\* a ready line is answered with a command whatever the queue holds
HandshakeUngated ==
    /\ serial_conn = "open"
    /\ rx # <<>>
    /\ rx' = Tail(rx)
    /\ wpc' = wpc
    /\ IF IsReady(ReceivedLine(Head(rx).line))
       THEN /\ tx' = Append(tx, CommandToSend)
            /\ last_processed_time' = clock
            /\ IF gift_queue = <<>>
               THEN UNCHANGED <<gift_queue, deq>>
               ELSE /\ gift_queue' = Tail(gift_queue)
                    /\ deq' = Append(deq, Head(gift_queue))
       ELSE UNCHANGED <<gift_queue, deq, tx, last_processed_time>>

\* lines 92-121: the port is open and can_process_gift is true
Handshake ==
    /\ serial_conn = "open"
    /\ CanProcess
    /\ \/ \* in_waiting == 0
          /\ rx = <<>>
          /\ UNCHANGED <<gift_queue, deq, tx, rx, last_processed_time, wpc>>
       \/ \* a line is read
          /\ rx # <<>>
          /\ rx' = Tail(rx)
          /\ IF IsReady(ReceivedLine(Head(rx).line))
             THEN Dispatch
             ELSE UNCHANGED <<gift_queue, deq, tx, last_processed_time, wpc>>
       \/ \* in_waiting or readline raises: SerialException goes to the
          \* reconnect, any other exception to _stop_event.wait(5)
          /\ \E exc \in {"SerialException", "Exception"} :
                wpc' = IF exc = "SerialException" THEN "reconnect" ELSE "loop"
          /\ UNCHANGED <<gift_queue, deq, tx, rx, last_processed_time>>

WorkerHandshake ==
    /\ wpc = "loop"
    /\ ~stop_event
    /\ Handshake
    /\ UNCHANGED appVars
    /\ UNCHANGED <<configVars, events, results, enq, serial_conn, clock,
                   stop_event,
                   open_fails>>

\* one iteration with the port open and can_process_gift false: only the sleep
WorkerIdle ==
    /\ wpc = "loop"
    /\ ~stop_event
    /\ serial_conn = "open"
    /\ ~CanProcess
    /\ UNCHANGED vars

\* one iteration without an open port: line 126
WorkerNoPort ==
    /\ wpc = "loop"
    /\ ~stop_event
    /\ serial_conn # "open"
    /\ wpc' = "reconnect"
    /\ UNCHANGED appVars
    /\ UNCHANGED <<configVars, queueVars, deq, tx, serial_conn, rx, clock,
                   last_processed_time, stop_event, open_fails>>

\* _reconnect_serial: close, sleep, open again; a failure waits on the stop
\* event and returns to the loop
WorkerReconnect ==
    /\ wpc = "reconnect"
    /\ \/ OpenSucceeds
       \/ OpenFails
    /\ wpc' = "loop"
    /\ UNCHANGED appVars
    /\ UNCHANGED <<configVars, queueVars, deq, tx, clock, last_processed_time,
                   stop_event>>

WorkerStep ==
    \/ WorkerFirstOpen
    \/ WorkerExit
    \/ WorkerHandshake
    \/ WorkerIdle
    \/ WorkerNoPort
    \/ WorkerReconnect

Next ==
    \/ \E ev \in GiftEvents : DetectorOnGift(ev)
    \/ \E raw \in Lines : SerialArrive(raw)
    \/ Tick
    \/ StartProcessing
    \/ StopProcessing
    \/ WorkerStep

Spec == Init /\ [][Next]_vars

\* ===================================================================
\* main_controller.py: startup, the monitoring loop, shutdown, signals
\* ===================================================================
libVars == <<maxsize, target_gift_id, gift_queue, events, results, enq, deq, tx,
             rx, clock, last_processed_time>>
threadVars == <<serial_conn, stop_event, wpc, open_fails>>

\* what the settings file can be like when main() reads it
ConfigCases == {"ok", "missing", "bad_number", "bad_cooldown", "no_port"}

\* awaits of the monitoring loop that lie inside its try block
TryAwaits == {"fetch", "offline_sleep", "start", "confirm", "timeout_sleep",
              "active"}

\* lines 100-164: configuration, queue, serial processor
MainStartup ==
    /\ apc = "startup"
    /\ \E cfg \in ConfigCases :
          /\ config' = cfg
          /\ CASE cfg = "ok" ->
                    \* lines 141-150: the processor is built and started
                    /\ stop_event' = FALSE
                    /\ wpc' = "init"
                    /\ serial_processor_ref' = TRUE
                    /\ apc' = "loop"
               [] cfg \in {"missing", "bad_number"} ->
                    \* load_config or getint raises: lines 327-334, then finally
                    /\ apc' = "shutdown"
                    /\ UNCHANGED <<stop_event, wpc, serial_processor_ref>>
               [] OTHER ->
                    \* getfloat raises inside the try of line 134 (caught at
                    \* line 154), or PORT is empty (line 161): no processor
                    /\ apc' = "loop"
                    /\ UNCHANGED <<stop_event, wpc, serial_processor_ref>>
    /\ UNCHANGED <<libVars, serial_conn, open_fails, shutdown_event,
                   connected_event, client_connected, connection_task,
                   cancel_pending, nsig, dpc>>

\* line 216 and line 218
AdapterLoopCheck ==
    /\ apc = "loop"
    /\ IF shutdown_event
       THEN apc' = "shutdown" /\ connected_event' = connected_event
       ELSE apc' = "fetch" /\ connected_event' = FALSE
    /\ UNCHANGED <<config, libVars, threadVars, shutdown_event, client_connected,
                   connection_task, serial_processor_ref, cancel_pending,
                   nsig, dpc>>

\* variant: a failed fetch_is_live ends the monitoring loop
FetchErrorEndsLoop ==
    /\ apc = "fetch"
    /\ ~cancel_pending
    /\ \E r \in {"live", "offline", "error"} :
          apc' = CASE r = "live" -> "start"
                   [] r = "offline" -> "offline_sleep"
                   [] OTHER -> "shutdown"
    /\ UNCHANGED <<config, libVars, threadVars, shutdown_event, connected_event,
                   client_connected, connection_task, serial_processor_ref,
                   cancel_pending, nsig, dpc>>
\* lines 223-231: fetch_is_live answers, or raises
AdapterFetch ==
    /\ apc = "fetch"
    /\ ~cancel_pending
    /\ \E r \in {"live", "offline", "error"} :
          apc' = CASE r = "live" -> "start"
                   [] r = "offline" -> "offline_sleep"
                   [] OTHER -> "finally"
    /\ UNCHANGED <<config, libVars, threadVars, shutdown_event, connected_event,
                   client_connected, connection_task, serial_processor_ref,
                   cancel_pending, nsig, dpc>>

\* line 230-231: sleep(RECONNECT_DELAY), continue (through the finally)
AdapterOfflineSleep ==
    /\ apc = "offline_sleep"
    /\ ~cancel_pending
    /\ apc' = "finally"
    /\ UNCHANGED <<config, libVars, threadVars, shutdown_event, connected_event,
                   client_connected, connection_task, serial_processor_ref,
                   cancel_pending, nsig, dpc>>

\* lines 233-235: start() hands back the connection task, or raises
\* (UserOfflineError, AlreadyConnectedError, ConnectionRefusedError, ...)
AdapterStart ==
    /\ apc = "start"
    /\ ~cancel_pending
    /\ \/ /\ connection_task' = "running"
          /\ client_connected' = TRUE
          /\ apc' = "confirm"
       \/ /\ apc' = "finally"
          /\ UNCHANGED <<connection_task, client_connected>>
    /\ UNCHANGED <<config, libVars, threadVars, shutdown_event, connected_event,
                   serial_processor_ref, cancel_pending, nsig, dpc>>

\* variant: the timed-out attempt's task is left running
KeepsTaskOnTimeout ==
    /\ client_connected' = FALSE
    /\ connection_task' = connection_task
    /\ apc' = "timeout_sleep"
\* lines 242-256: the confirmation timed out
ConfirmTimeout ==
    /\ client_connected' = FALSE                 \* line 247
    /\ connection_task' = "done"                 \* lines 248-255
    /\ apc' = "timeout_sleep"                    \* line 256

\* lines 237-257: wait_for(_connected_event.wait(), timeout=15.0)
AdapterConfirm ==
    /\ apc = "confirm"
    /\ ~cancel_pending
    /\ IF connected_event
       THEN /\ apc' = "active"
            /\ UNCHANGED <<client_connected, connection_task>>
       ELSE ConfirmTimeout
    /\ UNCHANGED <<config, libVars, threadVars, shutdown_event, connected_event,
                   serial_processor_ref, cancel_pending, nsig, dpc>>

\* line 256-257: sleep(RECONNECT_DELAY), continue (through the finally)
AdapterTimeoutSleep ==
    /\ apc = "timeout_sleep"
    /\ ~cancel_pending
    /\ apc' = "finally"
    /\ UNCHANGED <<config, libVars, threadVars, shutdown_event, connected_event,
                   client_connected, connection_task, serial_processor_ref,
                   cancel_pending, nsig, dpc>>

\* line 259: await connection_task returns or raises once the task is over
AdapterActive ==
    /\ apc = "active"
    /\ ~cancel_pending
    /\ connection_task = "done"
    /\ apc' = "finally"
    /\ UNCHANGED <<config, libVars, threadVars, shutdown_event, connected_event,
                   client_connected, connection_task, serial_processor_ref,
                   cancel_pending, nsig, dpc>>

\* variant: the clean-up disconnects but keeps the task and the flag
CleanupKeepsState ==
    /\ client_connected' = FALSE
    /\ connection_task' = connection_task
    /\ connected_event' = connected_event
\* lines 291-309: disconnect, cancel and await the task, forget it
Cleanup ==
    /\ client_connected' = FALSE
    /\ connection_task' = "None"
    /\ connected_event' = FALSE

\* lines 291-311
AdapterFinally ==
    /\ apc = "finally"
    /\ Cleanup
    /\ apc' = IF shutdown_event THEN "loop" ELSE "retry_wait"
    /\ UNCHANGED <<config, libVars, threadVars, shutdown_event, serial_processor_ref,
                   cancel_pending, nsig, dpc>>

\* lines 313-323: wait_for(shutdown_event.wait(), timeout=RECONNECT_DELAY)
AdapterRetryWait ==
    /\ apc = "retry_wait"
    /\ ~cancel_pending
    /\ apc' = IF shutdown_event THEN "shutdown" ELSE "loop"
    /\ UNCHANGED <<config, libVars, threadVars, shutdown_event, connected_event,
                   client_connected, connection_task, serial_processor_ref,
                   cancel_pending, nsig, dpc>>

\* the main task receives CancelledError at its await: inside the try the
\* handler of line 281 breaks and the finally still runs with its wait;
\* inside the finally it leaves the loop at once
AdapterCancelled ==
    /\ cancel_pending
    /\ cancel_pending' = FALSE
    /\ \/ /\ apc \in TryAwaits
          /\ Cleanup
          /\ apc' = IF shutdown_event THEN "shutdown" ELSE "cancel_wait"
       \/ /\ apc = "retry_wait"
          /\ apc' = "shutdown"
          /\ UNCHANGED <<client_connected, connection_task, connected_event>>
    /\ UNCHANGED <<config, libVars, threadVars, shutdown_event, serial_processor_ref,
                   nsig, dpc>>

\* the wait of line 314 after a break: it ends either way, then the break
AdapterCancelWait ==
    /\ apc = "cancel_wait"
    /\ apc' = "shutdown"
    /\ UNCHANGED <<config, libVars, threadVars, shutdown_event, connected_event,
                   client_connected, connection_task, serial_processor_ref,
                   cancel_pending, nsig, dpc>>

\* lines 339-375, then the interpreter exits: the task is cancelled, the
\* client stopped; _serial_processor_ref.stop() is no method of
\* SerialGiftProcessor, so with a processor the call raises AttributeError
\* out of main(); the daemon worker thread ends with the process
MainShutdown ==
    /\ apc = "shutdown"
    /\ apc' = "exited"
    /\ connection_task' = IF connection_task = "running" THEN "done"
                          ELSE connection_task
    /\ client_connected' = FALSE
    /\ wpc' = IF ThreadAlive THEN "killed" ELSE wpc
    /\ cancel_pending' = FALSE
    /\ UNCHANGED <<config, libVars, serial_conn, stop_event, open_fails,
                   shutdown_event, connected_event, serial_processor_ref,
                   nsig, dpc>>

AdapterStep ==
    \/ AdapterLoopCheck
    \/ AdapterFetch
    \/ AdapterOfflineSleep
    \/ AdapterStart
    \/ AdapterConfirm
    \/ AdapterTimeoutSleep
    \/ AdapterActive
    \/ AdapterFinally
    \/ AdapterRetryWait
    \/ AdapterCancelled
    \/ AdapterCancelWait
    \/ MainShutdown

\* ----------------------------------------------- the streaming client
\* ConnectEvent: on_connect, lines 166-171
OnConnect ==
    /\ connection_task = "running"
    /\ client_connected
    /\ ~connected_event
    /\ apc # "exited"
    /\ connected_event' = TRUE
    /\ UNCHANGED <<config, libVars, threadVars, shutdown_event, client_connected,
                   connection_task, serial_processor_ref, apc, cancel_pending,
                   nsig, dpc>>

\* the gift name the handler of main() looks for (line 188)
AppGiftName == "You're awesome"

\* gift events of the stream the application is connected to
AppEvents == {[name |-> AppGiftName, id |-> 1], [name |-> "Rose", id |-> 2]}

\* GiftEvent: on_gift of main(), lines 173-209. For the looked-for name with
\* a processor, line 197 calls add_gift_item, which SerialGiftProcessor does
\* not have: AttributeError, caught and logged at line 201; without a
\* processor the enqueue is skipped (line 206). The queue is not touched.
MainOnGift(ev) ==
    /\ connection_task = "running"
    /\ client_connected
    /\ apc # "exited"
    /\ nevents < MaxEvents
    /\ events' = Append(events, ev)
    /\ results' = Append(results,
                         IF ev.name # AppGiftName THEN "nomatch"
                         ELSE IF serial_processor_ref THEN "error"
                         ELSE "skipped")
    /\ UNCHANGED <<maxsize, target_gift_id, gift_queue, enq, deq, tx, rx,
                   clock, last_processed_time>>
    /\ UNCHANGED <<threadVars, appVars>>

\* the connection is over: the task finishes, with a DisconnectEvent
\* (on_disconnect, lines 211-214) or without one
ConnectionEnds ==
    /\ connection_task = "running"
    /\ apc # "exited"
    /\ connection_task' = "done"
    /\ client_connected' = FALSE
    /\ \E notified \in BOOLEAN :
          connected_event' = IF notified THEN FALSE ELSE connected_event
    /\ UNCHANGED <<config, libVars, threadVars, shutdown_event, serial_processor_ref,
                   apc, cancel_pending, nsig, dpc>>

\* ------------------------------------------------------- signal_handler
\* lines 378-385. With a processor, line 383 raises AttributeError (the class
\* has no stop method) and line 385 is not reached; the exception leaves
\* the event loop, and asyncio.run cancels the main task or, when main() is
\* already past its loop, ends the process.
SignalHandlerBody ==
    IF serial_processor_ref
    THEN /\ shutdown_event' = shutdown_event
         /\ IF apc \in {"shutdown", "cancel_wait"} \/ cancel_pending
            THEN /\ apc' = "exited"
                 /\ wpc' = IF ThreadAlive THEN "killed" ELSE wpc
                 /\ cancel_pending' = FALSE
            ELSE /\ cancel_pending' = TRUE
                 /\ UNCHANGED <<apc, wpc>>
    ELSE /\ shutdown_event' = TRUE
         /\ UNCHANGED <<cancel_pending, apc, wpc>>

SignalHandler ==
    /\ nsig < MaxSignals
    /\ apc \notin {"startup", "exited"}
    /\ nsig' = nsig + 1
    /\ SignalHandlerBody
    /\ UNCHANGED <<config, libVars, serial_conn, stop_event, open_fails,
                   connected_event, client_connected, connection_task,
                   serial_processor_ref, dpc>>

\* --------------------------------------------- TikTokGiftDetector.run
\* shutdown_event stands for the stop_event the detector was built with;
\* whoever owns the detector sets it
DetectorStopRequested ==
    /\ ~shutdown_event
    /\ shutdown_event' = TRUE
    /\ UNCHANGED <<config, libVars, threadVars, connected_event, client_connected,
                   connection_task, serial_processor_ref, apc, cancel_pending,
                   nsig, dpc>>

\* lines 96-99
DetectorCheck ==
    /\ dpc = "check"
    /\ dpc' = IF shutdown_event THEN "done" ELSE "start"
    /\ UNCHANGED <<config, libVars, threadVars, shutdown_event, connected_event,
                   client_connected, connection_task, serial_processor_ref,
                   apc, cancel_pending, nsig>>

\* lines 108-124: client.start() returns, or raises something caught
DetectorStartEnds ==
    /\ dpc = "start"
    /\ dpc' = "sleep"
    /\ UNCHANGED <<config, libVars, threadVars, shutdown_event, connected_event,
                   client_connected, connection_task, serial_processor_ref,
                   apc, cancel_pending, nsig>>

\* line 128
DetectorSleep ==
    /\ dpc = "sleep"
    /\ dpc' = "check"
    /\ UNCHANGED <<config, libVars, threadVars, shutdown_event, connected_event,
                   client_connected, connection_task, serial_processor_ref,
                   apc, cancel_pending, nsig>>

\* the detector on its own: its run loop and its gift handler
NextDetector ==
    \/ DetectorCheck
    \/ DetectorStartEnds
    \/ DetectorSleep
    \/ DetectorStopRequested
    \/ \E ev \in StreamEvents : DetectorOnGift(ev)

SpecDetector == Init /\ [][NextDetector]_vars

\* ----------------------------------------------- the wired application
\* In the application nothing sets _stop_event and nothing reaches the
\* queue (AppWorkerUntouched), so the worker never looks at the port after
\* opening it and of its steps only these are ever enabled.
AppWorkerStep ==
    \/ WorkerFirstOpen
    \/ WorkerIdle

AppWorkerUntouched ==
    /\ ~stop_event
    /\ gift_queue = <<>>
    /\ wpc \in {"none", "init", "done", "killed"} \/ serial_conn = "open"

InitApp == Init /\ maxsize = 2 /\ target_gift_id = ""

NextApp ==
    \/ MainStartup
    \/ AdapterStep
    \/ OnConnect
    \/ \E ev \in AppEvents : MainOnGift(ev)
    \/ ConnectionEnds
    \/ SignalHandler
    \/ AppWorkerStep

SpecApp == InitApp /\ [][NextApp]_vars

\* The event loop runs the main coroutine whenever it can go on, timeouts
\* expire, the worker thread is scheduled; the stream ending, the connect
\* notification and signals are up to the outside.
FairSpecApp ==
    /\ SpecApp
    /\ WF_vars(MainStartup)
    /\ WF_vars(AdapterStep)
    /\ WF_vars(AppWorkerStep)

\* ===================================================================
\* Claims about the queue, the handshake and the reconnect (under Spec)
\* ===================================================================

\* C1: with a capacity above 0 the queue never holds more than the capacity;
\* with capacity 0 no enqueue is ever rejected and the queue holds every
\* accepted item that was not yet taken.
C1_BoundedQueue ==
    /\ maxsize > 0 => Len(gift_queue) <= maxsize
    /\ maxsize = 0 => dropped = 0
    /\ Len(gift_queue) = Len(enq) - Len(deq)

\* the bounded queue is at its capacity after a rejected enqueue, with the
\* worker running
C1_Witness ==
    /\ maxsize > 0
    /\ Len(gift_queue) = maxsize
    /\ dropped > 0
    /\ wpc = "loop"

\* C2: an on_gift for a matching event that finds the bounded queue at its
\* capacity reports "dropped" and leaves the queue and the accepted items as
\* they were; the handler has returned when the step ends.
C2_DropOnFull ==
    [][(/\ Len(results') = Len(results) + 1
        /\ Last(results') # "nomatch"
        /\ maxsize > 0
        /\ Len(gift_queue) = maxsize)
       => (/\ Last(results') = "dropped"
           /\ gift_queue' = gift_queue
           /\ enq' = enq)]_vars

C2_Witness ==
    /\ maxsize > 0
    /\ Len(gift_queue) = maxsize
    /\ results # <<>>
    /\ Last(results) = "dropped"

\* C3: the items taken by the worker are, in order, a prefix of the items
\* accepted into the queue.
C3_FifoOrder == IsPrefix(deq, enq)

\* two items were taken and a failed write with its reconnect came between
C3_Witness ==
    /\ Len(deq) >= 2
    /\ Len(tx) < Len(deq)
    /\ wpc = "loop"

\* C4: after a dispatch at t0, a command is written only for a ready signal
\* that reached the serial line at t0 + cooldown or later.
C4_NoDispatchForEarlySignal ==
    [][(Len(tx') = Len(tx) + 1 /\ last_processed_time > 0)
       => Head(rx).at >= last_processed_time + Cooldown]_vars

TrailingTrimmed(raw) == RStrip(Decode(raw))
LineRead == wpc = "loop" /\ rx # <<>> /\ rx' = Tail(rx)
C6_ExactMatch ==
    [][LineRead =>
         /\ (deq' # deq) <=> (TrailingTrimmed(Head(rx).line) = ReadySignalCfg)
         /\ (deq' = deq) =>
              /\ gift_queue' = gift_queue
              /\ tx' = tx
              /\ last_processed_time' = last_processed_time
              /\ wpc' = "loop"]_vars

\* C7: a failed open with the stop event clear leaves the worker thread alive
\* and on its way to another open, and writes nothing.
FailedOpen == wpc \in {"init", "reconnect"} /\ open_fails' = open_fails + 1
C7_ReconnectKeepsWorker ==
    [][(FailedOpen /\ ~stop_event)
       => (ThreadAlive' /\ wpc' = "loop" /\ tx' = tx)]_vars

\* ===================================================================
\* Claims about shutdown, signals and the confirmation timeout
\* ===================================================================

\* C8: once the shutdown event is set, the monitoring loop of main() and the
\* worker thread both come to an end.
C8_ShutdownTerminates ==
    shutdown_event ~> (apc = "exited" /\ ~ThreadAlive)

\* C9: every delivery of a signal to signal_handler leaves shutdown_event set.
C9_SignalSetsShutdown ==
    [][nsig' = nsig + 1 => shutdown_event']_vars

\* C10: a confirmation wait that ends without the connect notification (and
\* without cancellation) leaves the client disconnected and the connection
\* task finished and goes to the retry sleep; every start of an attempt finds
\* no earlier task; the wait for the confirmation always ends, and after the
\* retry sleep the loop comes back to a new attempt unless it is shut down.
C10_ConfirmationTimeout ==
    /\ [][(apc = "confirm" /\ ~connected_event /\ ~cancel_pending
           /\ apc' # apc)
          => (/\ apc' = "timeout_sleep"
              /\ connection_task' = "done"
              /\ ~client_connected')]_vars
    /\ [](apc \in {"fetch", "start"} => connection_task = "None")
    /\ (apc = "confirm" ~> apc # "confirm")
    /\ (apc = "timeout_sleep" ~> apc \in {"fetch", "shutdown", "exited"})

C10_Witness ==
    /\ apc = "timeout_sleep"
    /\ connection_task = "done"
    /\ ~client_connected
    /\ ~connected_event

\* ===================================================================
\* Claims about consumption, ready signals and matching
\* ===================================================================

\* C11: in every reachable state the number of items the worker has taken
\* from the queue equals the number of commands it has written, a failed
\* write or flush included.
C11_ConsumedExactlyOnce == Len(deq) = Len(tx)

\* C12: a command is written only for a ready signal that came while
\* can_process_gift was true; a signal that came at an earlier time while it
\* was false (queue empty or cooldown running) never leads to a dispatch.
C12_SignalsNeverBuffered ==
    [][(Len(deq') > Len(deq) /\ rx # <<>>)
       => (Head(rx).can \/ Head(rx).at = clock)]_vars

\* C13: a step writes at most one command; a step that writes a command
\* reads one ready line and takes exactly the head of the queue; with
\* capacity 2, a third matching event that comes before any item was taken
\* is rejected; the items taken are in arrival order.
C13_OneDispatchPerSignal ==
    [][/\ Len(tx') <= Len(tx) + 1
       /\ Len(tx') = Len(tx) + 1 =>
             /\ rx # <<>>
             /\ rx' = Tail(rx)
             /\ IsReady(ReceivedLine(Head(rx).line))
             /\ gift_queue # <<>>
             /\ gift_queue' = Tail(gift_queue)
             /\ deq' = Append(deq, Head(gift_queue))
             /\ tx' = Append(tx, CommandToSend)
       /\ (/\ maxsize = 2
           /\ deq = <<>>
           /\ results = <<"queued", "queued">>
           /\ Len(results') = 3
           /\ Last(results') # "nomatch")
          => (/\ Last(results') = "dropped"
              /\ enq' = enq
              /\ gift_queue' = gift_queue)
       /\ IsPrefix(deq', enq')]_vars

\* three matching events came before any dispatch, the third was rejected,
\* and both accepted items went out, each on a ready line of its own
C13_Witness ==
    /\ maxsize = 2
    /\ results = <<"queued", "queued", "dropped">>
    /\ Len(enq) = 2
    /\ deq = enq
    /\ Len(tx) = 2

\* C14: an event given to on_gift leads to an enqueue attempt (accepted or
\* rejected) exactly when it matches the target: by its id when a target id
\* is configured, whatever its name, and by its name otherwise; a step for a
\* non-matching event leaves the queue as it was; a rejected attempt leaves
\* everything but the histories as it was, the run loop included.
MatchesTarget(ev) ==
    \/ target_gift_id # "" /\ StrOfId(ev.id) = target_gift_id
    \/ target_gift_id = "" /\ ev.name = TargetName
Attempted(i) == results[i] \in {"queued", "dropped"}
C14_TargetMatching ==
    /\ [](/\ Len(results) = Len(events)
          /\ \A i \in 1..Len(events) : Attempted(i) <=> MatchesTarget(events[i])
          /\ Len(enq) + dropped
               = Cardinality({i \in 1..Len(events) : MatchesTarget(events[i])}))
    /\ [][Len(events') = Len(events) + 1 =>
            /\ ~MatchesTarget(Last(events')) =>
                  (gift_queue' = gift_queue /\ enq' = enq)
            /\ Last(results') = "dropped" =>
                  (gift_queue' = gift_queue /\ enq' = enq /\ dpc' = dpc
                   /\ shutdown_event' = shutdown_event)]_vars

\* with a target id configured, an event with the target's name and another
\* id was passed over and an event with the id and another name was taken
C14_Witness ==
    /\ target_gift_id = "1"
    /\ \E i, j \in 1..Len(events) :
          /\ events[i] = [name |-> TargetName, id |-> 2]
          /\ results[i] = "nomatch"
          /\ events[j] = [name |-> "Heart", id |-> 1]
          /\ results[j] = "queued"

\* C15: in the application, an event with the looked-for gift name that
\* comes while the serial processor is set up, its thread alive and the queue
\* not full, adds exactly one item to the queue the worker reads.
C15_WiredEnqueue ==
    [][(/\ Len(events') = Len(events) + 1
        /\ Last(events').name = AppGiftName
        /\ serial_processor_ref
        /\ ThreadAlive
        /\ ~QueueFull(gift_queue))
       => (/\ Len(gift_queue') = Len(gift_queue) + 1
           /\ Len(enq') = Len(enq) + 1)]_vars

\* ===================================================================
\* Claims about the adapter loop, the configuration and stopping
\* ===================================================================

\* positions of main() inside its monitoring loop
LoopStates == {"loop", "fetch", "offline_sleep", "start", "confirm",
               "timeout_sleep", "active", "finally", "retry_wait"}

\* C16: the monitoring loop is left only with the shutdown event set or a
\* cancellation delivered; after the clean-up of an attempt that ended
\* (offline, refused, already connected, timed out, disconnected, any other
\* exception) it waits the retry delay and goes to the loop's head, and from
\* there to a new attempt unless it is stopped.
C16_AdapterLoopRetries ==
    /\ [][(apc \in LoopStates /\ apc' \notin LoopStates)
          => (shutdown_event \/ cancel_pending)]_vars
    /\ [][(apc = "finally" /\ apc' # apc /\ ~shutdown_event /\ ~cancel_pending)
          => apc' = "retry_wait"]_vars
    /\ [][(apc = "retry_wait" /\ apc' # apc /\ ~shutdown_event
           /\ ~cancel_pending)
          => apc' = "loop"]_vars
    /\ (apc \in {"finally", "retry_wait"}
          ~> apc \in {"fetch", "shutdown", "exited"})

\* an earlier attempt was connected (it delivered a gift event) and is over;
\* the loop, not stopped, is at a new attempt
C16_Witness ==
    /\ apc = "fetch"
    /\ events # <<>>
    /\ connection_task = "None"
    /\ ~shutdown_event
    /\ ~cancel_pending

\* TikTokGiftDetector.run has the same shape (under SpecDetector): it ends
\* only at its check with the stop event set, and every start that returns
\* or raises is followed by the sleep and the check
DetectorRunRetries ==
    /\ [][dpc' = "done" /\ dpc # "done" => (dpc = "check" /\ shutdown_event)]_vars
    /\ [][dpc = "start" /\ dpc' # dpc => dpc' = "sleep"]_vars
    /\ [][dpc = "sleep" /\ dpc' # dpc => dpc' = "check"]_vars

\* C17: when main() found a required setting missing or a value malformed
\* (file or key missing, a non-numeric queue size, reconnect delay, baud rate
\* or cooldown), the worker thread was never started and main() is on its
\* way out without having entered the monitoring loop.
BadConfigs == {"missing", "bad_number", "bad_cooldown"}
C17_ConfigFailureFatal ==
    config \in BadConfigs
       => (/\ wpc = "none"
           /\ ~serial_processor_ref
           /\ apc \in {"shutdown", "exited"})

\* C18: a second or later signal finds the shutdown event set and leaves it
\* set, and changes nothing else: the position of main(), the pending
\* cancellation, the worker thread, the connection and the port stay as the
\* first signal left them (no error ends the process, nothing is started).
C18_ShutdownIdempotent ==
    [][(nsig >= 1 /\ nsig' = nsig + 1)
       => (/\ shutdown_event
           /\ shutdown_event'
           /\ UNCHANGED <<apc, cancel_pending, wpc, stop_event, serial_conn,
                          connection_task, client_connected>>)]_vars

\* C19: on_gift can run in every state, whatever the worker thread and the
\* port are doing; it touches nothing of the worker, and for a matching event
\* its outcome depends on the queue alone: rejected when the bounded queue is
\* at its capacity, appended at the tail otherwise.
C19_ProducerNeverBlocks ==
    /\ [](nevents < MaxEvents =>
            \A ev \in GiftEvents : ENABLED DetectorOnGift(ev))
    /\ [][Len(events') = Len(events) + 1 =>
            /\ UNCHANGED <<workerVars, rx, stop_event, clock>>
            /\ MatchesTarget(Last(events')) =>
                  IF maxsize > 0 /\ Len(gift_queue) >= maxsize
                  THEN /\ Last(results') = "dropped"
                       /\ gift_queue' = gift_queue
                  ELSE /\ Last(results') = "queued"
                       /\ Len(enq') = Len(enq) + 1
                       /\ gift_queue' = Append(gift_queue, Last(enq'))]_vars

\* the worker thread ended on a failed first open; with no port and no
\* worker, events were accepted up to the capacity and the next was rejected
C19_Witness ==
    /\ wpc = "done"
    /\ serial_conn = "None"
    /\ open_fails > 0
    /\ maxsize > 0
    /\ Len(gift_queue) = maxsize
    /\ deq = <<>>
    /\ Last(results) = "dropped"

\* C20: whenever the worker's thread function has returned, the serial port
\* is not open: it was closed at the loop's exit or never opened.
C20_PortClosedAfterWorker == wpc = "done" => serial_conn # "open"

\* a write failed, the reconnect opened the port again, and the worker, told
\* to stop, has closed it and returned
C20_Witness ==
    /\ wpc = "done"
    /\ stop_event
    /\ serial_conn = "closed"
    /\ Len(tx) < Len(deq)

\* ===================================================================
\* Claims about the connection state, the stop flags and the cooldown
\* ===================================================================

\* C21: during every retry delay the connected flag is clear and no
\* connection task is running; at every start of an attempt the flag is
\* clear, the client is not connected and no earlier task is held; a task is
\* only started when none is held.
C21_ConnectedStateCleared ==
    /\ [](apc \in {"offline_sleep", "timeout_sleep", "retry_wait"}
            => (~connected_event /\ connection_task # "running"))
    /\ [](apc \in {"fetch", "start"}
            => (/\ ~connected_event
                /\ ~client_connected
                /\ connection_task = "None"))
    /\ [][(connection_task' = "running" /\ connection_task # "running")
          => (connection_task = "None" /\ apc = "start")]_vars

\* a connection was up (it delivered a gift event) and has ended; the loop,
\* not stopped, is in its retry delay with the connected state cleared
C21_Witness ==
    /\ apc = "retry_wait"
    /\ events # <<>>
    /\ ~connected_event
    /\ connection_task = "None"
    /\ ~shutdown_event
    /\ ~cancel_pending

\* C22: a stop flag that is set stays set: no step clears the worker's
\* _stop_event or the shutdown_event of main().
C22_StopFlagNeverReset ==
    [][/\ stop_event => stop_event'
       /\ shutdown_event => shutdown_event']_vars

\* C23: the worker never gets into a state from which a non-empty queue is
\* never served: with the stop event clear and items waiting, the worker's
\* thread function has not returned (a returned thread takes no further
\* step, so nothing it could do would ever serve the queue).
C23_NoStarvation ==
    (gift_queue # <<>> /\ ~stop_event) => wpc # "done"

C25_SingleWorkerThread ==
    [][/\ (wpc' = "init" /\ wpc # "init") => ~ThreadAlive
       /\ ThreadAlive => (stop_event => stop_event')]_vars

\* the stop was requested and the thread is still alive, busy reconnecting
\* (a join would time out); start_processing called now changes nothing
C25_Witness ==
    /\ stop_event
    /\ wpc = "reconnect"
    /\ open_fails > 0

====
